---- MODULE Spec2Model ----
(***************************************************************************)
(* A model of app/main.py: three JSON files (users, lecturers,             *)
(* evaluations) and the HTTP handlers that read, validate, extend and      *)
(* rewrite them.                                                           *)
(*                                                                         *)
(* Spec      : requests are handled one at a time, each handler running    *)
(*             from its first read to its return as one step.              *)
(* SpecConc  : the handlers run on the threads of the server's pool; a     *)
(*             step is one read_json or one write_json together with the   *)
(*             thread-local code around it.                                *)
(* Strings that the code builds (the identifiers) are sequences of         *)
(* one-character strings, so that formatting is computed, not assumed.     *)
(***************************************************************************)
EXTENDS Integers, Sequences, FiniteSets, Bags, TLC

(***************************************************************************)
(* Bounds of the model.                                                    *)
(***************************************************************************)
\* create requests are sent while fewer creations than this have been answered
MaxRecords == 4
\* requests handed to the thread pool in a concurrent run
MaxAdmitted == 4
\* threads of the pool that run handlers at the same time
NumThreads == 2

(***************************************************************************)
(* Program constants.                                                      *)
(***************************************************************************)
USERS_FILE == "users.json"
LECTURERS_FILE == "lecturers.json"
EVALUATIONS_FILE == "evaluations.json"

IdWidth == 4
MinRating == 1
MaxRating == 5

\* comments: str | None = None
None == <<>>
Some(s) == <<s>>

(***************************************************************************)
(* f"{n:04d}": the decimal digits of n, left-padded with "0" to a minimum  *)
(* width of four characters (a wider number is not truncated).             *)
(***************************************************************************)
DigitChars == <<"0", "1", "2", "3", "4", "5", "6", "7", "8", "9">>

RECURSIVE DecDigits(_)
DecDigits(n) ==
    IF n < 10 THEN <<DigitChars[n + 1]>>
    ELSE DecDigits(n \div 10) \o <<DigitChars[(n % 10) + 1]>>

ZeroPad(s, w) ==
    IF Len(s) >= w THEN s ELSE [i \in 1..(w - Len(s)) |-> "0"] \o s

Format04d(n) == ZeroPad(DecDigits(n), IdWidth)

\* faulty variant: the count of stored records, without the + 1
generate_user_index_no_increment(stored) == Format04d(Len(stored))

\* generate_user_index, given what read_json(USERS_FILE) returned
generate_user_index(stored) == Format04d(Len(stored) + 1)

\* faulty variant: the count of stored records, without the + 1
generate_lecturer_id_no_increment(stored) == <<"L">> \o Format04d(Len(stored))

\* generate_lecturer_id, given what read_json(LECTURERS_FILE) returned
generate_lecturer_id(stored) == <<"L">> \o Format04d(Len(stored) + 1)

(***************************************************************************)
(* Request bodies.                                                         *)
(***************************************************************************)
EmailPool == {"a@x.com", "b@x.com", "c@x.com"}
MalformedEmails == {"not-an-email"}
LecturerNames == {"Dr. X", "Dr. Y"}
Departments == {"CS"}
CommentInputs == {None, Some("Great")}
RatingInputs == {MinRating - 1, MinRating, MaxRating, MaxRating + 1}
UserIndexInputs == {Format04d(1), Format04d(2), Format04d(3)}
LecturerIdInputs == {<<"L">> \o Format04d(1), <<"L">> \o Format04d(2),
                     <<"L">> \o Format04d(3)}

\* class UserCreate, before validation
UserCreateInputs ==
    [name : {"Alice"}, email : EmailPool \cup MalformedEmails]
        \cup {[name |-> "Bob", email |-> "a@x.com"]}
\* email: EmailStr
IsEmailStr(e) == e \in EmailPool
\* class LecturerCreate
LecturerCreateInputs == [name : LecturerNames, department : Departments]
\* class EvaluationCreate
EvaluationCreateInputs ==
    [user_index : UserIndexInputs, lecturer_id : LecturerIdInputs,
     rating : RatingInputs, comments : CommentInputs]

VARIABLES
    files,      \* file path -> the JSON array stored in it
    response,   \* the last answer sent: [op, status, body]
    created,    \* per collection, the successful creations in the order answered
    running,    \* the handlers in progress on pool threads: a bag of their locals
    admitted    \* the number of requests handed to pool threads so far

vars == <<files, response, created, running, admitted>>

read_json(file_path) == files[file_path]
\* faulty variant: the file is opened for appending, so the list lands after the old one
write_json_append(file_path, data) ==
    files' = [files EXCEPT ![file_path] = files[file_path] \o data]
\* faulty variant: only the record just appended is written
write_json_new_record_only(file_path, data) ==
    files' = [files EXCEPT ![file_path] = <<data[Len(data)]>>]
\* open(file_path, "w"): the file is replaced by the list given
write_json(file_path, data) == files' = [files EXCEPT ![file_path] = data]

NoBody == <<>>

\* ensure_files_exist() on a fresh directory: every file holds []
Init ==
    /\ files = [f \in {USERS_FILE, LECTURERS_FILE, EVALUATIONS_FILE} |-> <<>>]
    /\ response = [op |-> "none", status |-> 0, body |-> NoBody]
    /\ created = [users |-> <<>>, lecturers |-> <<>>, evaluations |-> <<>>]
    /\ running = EmptyBag
    /\ admitted = 0

\* raise HTTPException(status_code=..., detail=...)
HTTPException(op, status_code, detail) ==
    response' = [op |-> op, status |-> status_code, body |-> [detail |-> detail]]
\* return ...
Return(op, body) == response' = [op |-> op, status |-> 200, body |-> body]

\* the number of creations answered with success
TotalCreated ==
    Len(created.users) + Len(created.lecturers) + Len(created.evaluations)

\* faulty variant: only the first stored user is compared
EmailTakenFirstOnly(users, email) == users /= <<>> /\ users[1].email = email
\* faulty variant: only the last stored user is compared
EmailTakenLastOnly(users, email) == users /= <<>> /\ users[Len(users)].email = email
\* any(u["email"] == user.email for u in users)
EmailTaken(users, email) == \E i \in 1..Len(users) : users[i].email = email
\* faulty variant: an index is accepted when it is at most one past the stored count
UserFoundOffByOne(users, user_index) ==
    \E i \in 1..(Len(users) + 1) : Format04d(i) = user_index
\* any(u["index"] == evaluation.user_index for u in users)
UserFound(users, user_index) == \E i \in 1..Len(users) : users[i].index = user_index
\* faulty variant: an id is accepted when it is at most one past the stored count
LecturerFoundOffByOne(lecturers, lecturer_id) ==
    \E i \in 1..(Len(lecturers) + 1) : <<"L">> \o Format04d(i) = lecturer_id
\* any(l["id"] == evaluation.lecturer_id for l in lecturers)
LecturerFound(lecturers, lecturer_id) ==
    \E i \in 1..Len(lecturers) : lecturers[i].id = lecturer_id
\* faulty variant: and in place of or
RatingOutOfRangeBoth(rating) == rating < MinRating /\ rating > MaxRating
\* faulty variant: <= in place of <
RatingOutOfRangeStrict(rating) == rating <= MinRating \/ rating > MaxRating
\* evaluation.rating < 1 or evaluation.rating > 5
RatingOutOfRange(rating) == rating < MinRating \/ rating > MaxRating

(***************************************************************************)
(* faulty variant of POST /register: the record is appended and written   *)
(* before the duplicate check                                              *)
(***************************************************************************)
RegisterUserWriteFirst(user) ==
    /\ TotalCreated < MaxRecords
    /\ IF ~IsEmailStr(user.email)
       THEN /\ response' = [op |-> "register", status |-> 422, body |-> NoBody]
            /\ UNCHANGED <<files, created, running, admitted>>
       ELSE LET users == read_json(USERS_FILE)
                user_index == generate_user_index(read_json(USERS_FILE))
                record == [index |-> user_index, name |-> user.name,
                           email |-> user.email]
            IN /\ write_json(USERS_FILE, Append(users, record))
               /\ IF EmailTaken(users, user.email)
                  THEN /\ HTTPException("register", 400, "User already exists")
                       /\ UNCHANGED created
                  ELSE /\ Return("register",
                                 [index |-> user_index,
                                  message |-> "User registered successfully"])
                       /\ created' = [created EXCEPT !.users =
                                        Append(@, [body |-> user, id |-> user_index])]
               /\ UNCHANGED <<running, admitted>>

(***************************************************************************)
(* POST /register                                                          *)
(***************************************************************************)
RegisterUser(user) ==
    /\ TotalCreated < MaxRecords
    /\ IF ~IsEmailStr(user.email)
       THEN \* rejected by the request model: the handler does not run
            /\ response' = [op |-> "register", status |-> 422, body |-> NoBody]
            /\ UNCHANGED <<files, created, running, admitted>>
       ELSE LET users == read_json(USERS_FILE) IN
            IF EmailTaken(users, user.email)
            THEN /\ HTTPException("register", 400, "User already exists")
                 /\ UNCHANGED <<files, created, running, admitted>>
            ELSE LET user_index == generate_user_index(read_json(USERS_FILE))
                     record == [index |-> user_index, name |-> user.name,
                                email |-> user.email]
                 IN /\ write_json(USERS_FILE, Append(users, record))
                    /\ Return("register",
                              [index |-> user_index,
                               message |-> "User registered successfully"])
                    /\ created' = [created EXCEPT !.users =
                                     Append(@, [body |-> user, id |-> user_index])]
                    /\ UNCHANGED <<running, admitted>>

\* faulty variant of POST /lecturers: the list is written to the users file
AddLecturerWrongFile(lecturer) ==
    /\ TotalCreated < MaxRecords
    /\ LET lecturers == read_json(LECTURERS_FILE)
           lecturer_id == generate_lecturer_id(read_json(LECTURERS_FILE))
           record == [id |-> lecturer_id, name |-> lecturer.name,
                      department |-> lecturer.department]
       IN /\ write_json(USERS_FILE, Append(lecturers, record))
          /\ Return("add_lecturer",
                    [lecturer_id |-> lecturer_id,
                     message |-> "Lecturer added successfully"])
          /\ created' = [created EXCEPT !.lecturers =
                           Append(@, [body |-> lecturer, id |-> lecturer_id])]
          /\ UNCHANGED <<running, admitted>>

(***************************************************************************)
(* POST /lecturers                                                         *)
(***************************************************************************)
AddLecturer(lecturer) ==
    /\ TotalCreated < MaxRecords
    /\ LET lecturers == read_json(LECTURERS_FILE)
           lecturer_id == generate_lecturer_id(read_json(LECTURERS_FILE))
           record == [id |-> lecturer_id, name |-> lecturer.name,
                      department |-> lecturer.department]
       IN /\ write_json(LECTURERS_FILE, Append(lecturers, record))
          /\ Return("add_lecturer",
                    [lecturer_id |-> lecturer_id,
                     message |-> "Lecturer added successfully"])
          /\ created' = [created EXCEPT !.lecturers =
                           Append(@, [body |-> lecturer, id |-> lecturer_id])]
          /\ UNCHANGED <<running, admitted>>

(***************************************************************************)
(* GET /lecturers                                                          *)
(***************************************************************************)
ListLecturers ==
    /\ Return("list_lecturers", read_json(LECTURERS_FILE))
    /\ UNCHANGED <<files, created, running, admitted>>

\* faulty variant of POST /evaluate: the rating is checked before the user and
\* the lecturer
EvaluateLecturerRatingFirst(evaluation) ==
    /\ TotalCreated < MaxRecords
    /\ LET users == read_json(USERS_FILE)
           lecturers == read_json(LECTURERS_FILE)
           evaluations == read_json(EVALUATIONS_FILE)
       IN IF RatingOutOfRange(evaluation.rating)
          THEN /\ HTTPException("evaluate", 400, "Rating must be between 1 and 5")
               /\ UNCHANGED <<files, created, running, admitted>>
          ELSE IF ~UserFound(users, evaluation.user_index)
          THEN /\ HTTPException("evaluate", 404, "User not found")
               /\ UNCHANGED <<files, created, running, admitted>>
          ELSE IF ~LecturerFound(lecturers, evaluation.lecturer_id)
          THEN /\ HTTPException("evaluate", 404, "Lecturer not found")
               /\ UNCHANGED <<files, created, running, admitted>>
          ELSE LET record == [user_index |-> evaluation.user_index,
                              lecturer_id |-> evaluation.lecturer_id,
                              rating |-> evaluation.rating,
                              comments |-> evaluation.comments]
               IN /\ write_json(EVALUATIONS_FILE, Append(evaluations, record))
                  /\ Return("evaluate",
                            [message |-> "Evaluation submitted successfully"])
                  /\ created' = [created EXCEPT !.evaluations =
                                   Append(@, [body |-> evaluation])]
                  /\ UNCHANGED <<running, admitted>>

(***************************************************************************)
(* POST /evaluate                                                          *)
(***************************************************************************)
EvaluateLecturer(evaluation) ==
    /\ TotalCreated < MaxRecords
    /\ LET users == read_json(USERS_FILE)
           lecturers == read_json(LECTURERS_FILE)
           evaluations == read_json(EVALUATIONS_FILE)
       IN IF ~UserFound(users, evaluation.user_index)
          THEN /\ HTTPException("evaluate", 404, "User not found")
               /\ UNCHANGED <<files, created, running, admitted>>
          ELSE IF ~LecturerFound(lecturers, evaluation.lecturer_id)
          THEN /\ HTTPException("evaluate", 404, "Lecturer not found")
               /\ UNCHANGED <<files, created, running, admitted>>
          ELSE IF RatingOutOfRange(evaluation.rating)
          THEN /\ HTTPException("evaluate", 400, "Rating must be between 1 and 5")
               /\ UNCHANGED <<files, created, running, admitted>>
          ELSE LET record == [user_index |-> evaluation.user_index,
                              lecturer_id |-> evaluation.lecturer_id,
                              rating |-> evaluation.rating,
                              comments |-> evaluation.comments]
               IN /\ write_json(EVALUATIONS_FILE, Append(evaluations, record))
                  /\ Return("evaluate",
                            [message |-> "Evaluation submitted successfully"])
                  /\ created' = [created EXCEPT !.evaluations =
                                   Append(@, [body |-> evaluation])]
                  /\ UNCHANGED <<running, admitted>>

\* faulty variant of GET /evaluations: the lecturers file is read
GetEvaluationsWrongFile ==
    /\ Return("get_evaluations", read_json(LECTURERS_FILE))
    /\ UNCHANGED <<files, created, running, admitted>>

(***************************************************************************)
(* GET /evaluations                                                        *)
(***************************************************************************)
GetEvaluations ==
    /\ Return("get_evaluations", read_json(EVALUATIONS_FILE))
    /\ UNCHANGED <<files, created, running, admitted>>

(***************************************************************************)
(* GET /                                                                   *)
(***************************************************************************)
ReadRoot ==
    /\ Return("read_root", [message |-> "Hello, guys!"])
    /\ UNCHANGED <<files, created, running, admitted>>

Next ==
    \/ \E user \in UserCreateInputs : RegisterUser(user)
    \/ \E lecturer \in LecturerCreateInputs : AddLecturer(lecturer)
    \/ ListLecturers
    \/ \E evaluation \in EvaluationCreateInputs : EvaluateLecturer(evaluation)
    \/ GetEvaluations
    \/ ReadRoot

Spec == Init /\ [][Next]_vars

(***************************************************************************)
(* The handlers on concurrent threads. No lock or transaction spans a      *)
(* handler's reads and its write, so other threads' steps fall in between. *)
(***************************************************************************)
ConcUserInputs == [name : {"Alice"}, email : EmailPool]
ConcLecturerInputs == [name : {"Dr. X"}, department : Departments]
ConcEvaluationInputs ==
    [user_index : {Format04d(1)}, lecturer_id : {<<"L">> \o Format04d(1)},
     rating : {MinRating - 1, MaxRating}, comments : {None}]

\* a handler's locals: where it is, its request body, the lists it has read and
\* the identifier it has generated (<<>> until assigned)
Locals(pc, body, users, lecturers, evaluations, id) ==
    [pc |-> pc, body |-> body, users |-> users, lecturers |-> lecturers,
     evaluations |-> evaluations, id |-> id]

\* a free pool thread takes the next request and runs its handler to `first`
Admit(first) ==
    /\ BagCardinality(running) < NumThreads
    /\ admitted < MaxAdmitted
    /\ admitted' = admitted + 1
    /\ running' = running (+) SetToBag({first})

\* the handler with locals h takes its next step, to locals `next`
Step(h, next) ==
    /\ running' = (running (-) SetToBag({h})) (+) SetToBag({next})
    /\ UNCHANGED admitted

\* the handler with locals h returns or raises
Finish(h) ==
    /\ running' = running (-) SetToBag({h})
    /\ UNCHANGED admitted

\* register_user, line 69: users = read_json(USERS_FILE)
RegisterRead(user) ==
    /\ Admit(Locals("register_check", user, read_json(USERS_FILE), <<>>, <<>>, <<>>))
    /\ UNCHANGED <<files, response, created>>

\* register_user, lines 70-73: the duplicate check, then generate_user_index()
\* reads the file again
RegisterCheck(h) ==
    /\ h.pc = "register_check"
    /\ IF EmailTaken(h.users, h.body.email)
       THEN /\ HTTPException("register", 400, "User already exists")
            /\ Finish(h)
       ELSE /\ Step(h, [h EXCEPT !.pc = "register_write",
                                 !.id = generate_user_index(read_json(USERS_FILE))])
            /\ UNCHANGED response
    /\ UNCHANGED <<files, created>>

\* register_user, lines 74-76: append to the list read at line 69, write, return
RegisterWrite(h) ==
    /\ h.pc = "register_write"
    /\ LET user == h.body
           user_index == h.id
           record == [index |-> user_index, name |-> user.name, email |-> user.email]
       IN /\ write_json(USERS_FILE, Append(h.users, record))
          /\ Return("register",
                    [index |-> user_index, message |-> "User registered successfully"])
          /\ created' = [created EXCEPT !.users =
                           Append(@, [body |-> user, id |-> user_index])]
    /\ Finish(h)

\* add_lecturer, line 80: lecturers = read_json(LECTURERS_FILE)
LecturerRead(lecturer) ==
    /\ Admit(Locals("lecturer_generate", lecturer, <<>>, read_json(LECTURERS_FILE),
                    <<>>, <<>>))
    /\ UNCHANGED <<files, response, created>>

\* add_lecturer, line 81: generate_lecturer_id() reads the file again
LecturerGenerate(h) ==
    /\ h.pc = "lecturer_generate"
    /\ Step(h, [h EXCEPT !.pc = "lecturer_write",
                         !.id = generate_lecturer_id(read_json(LECTURERS_FILE))])
    /\ UNCHANGED <<files, response, created>>

\* add_lecturer, lines 82-84: append to the list read at line 80, write, return
LecturerWrite(h) ==
    /\ h.pc = "lecturer_write"
    /\ LET lecturer == h.body
           lecturer_id == h.id
           record == [id |-> lecturer_id, name |-> lecturer.name,
                      department |-> lecturer.department]
       IN /\ write_json(LECTURERS_FILE, Append(h.lecturers, record))
          /\ Return("add_lecturer",
                    [lecturer_id |-> lecturer_id,
                     message |-> "Lecturer added successfully"])
          /\ created' = [created EXCEPT !.lecturers =
                           Append(@, [body |-> lecturer, id |-> lecturer_id])]
    /\ Finish(h)

\* evaluate_lecturer, line 93: users = read_json(USERS_FILE)
EvaluateReadUsers(evaluation) ==
    /\ Admit(Locals("evaluate_read_lecturers", evaluation, read_json(USERS_FILE),
                    <<>>, <<>>, <<>>))
    /\ UNCHANGED <<files, response, created>>

\* evaluate_lecturer, line 94: lecturers = read_json(LECTURERS_FILE)
EvaluateReadLecturers(h) ==
    /\ h.pc = "evaluate_read_lecturers"
    /\ Step(h, [h EXCEPT !.pc = "evaluate_read_evaluations",
                         !.lecturers = read_json(LECTURERS_FILE)])
    /\ UNCHANGED <<files, response, created>>

\* evaluate_lecturer, line 95: evaluations = read_json(EVALUATIONS_FILE)
EvaluateReadEvaluations(h) ==
    /\ h.pc = "evaluate_read_evaluations"
    /\ Step(h, [h EXCEPT !.pc = "evaluate_check",
                         !.evaluations = read_json(EVALUATIONS_FILE)])
    /\ UNCHANGED <<files, response, created>>

\* evaluate_lecturer, lines 97-113: the three checks on the lists read, then
\* append to the list read at line 95, write, return
EvaluateCheckWrite(h) ==
    /\ h.pc = "evaluate_check"
    /\ LET evaluation == h.body
       IN IF ~UserFound(h.users, evaluation.user_index)
          THEN /\ HTTPException("evaluate", 404, "User not found")
               /\ UNCHANGED <<files, created>>
          ELSE IF ~LecturerFound(h.lecturers, evaluation.lecturer_id)
          THEN /\ HTTPException("evaluate", 404, "Lecturer not found")
               /\ UNCHANGED <<files, created>>
          ELSE IF RatingOutOfRange(evaluation.rating)
          THEN /\ HTTPException("evaluate", 400, "Rating must be between 1 and 5")
               /\ UNCHANGED <<files, created>>
          ELSE LET record == [user_index |-> evaluation.user_index,
                              lecturer_id |-> evaluation.lecturer_id,
                              rating |-> evaluation.rating,
                              comments |-> evaluation.comments]
               IN /\ write_json(EVALUATIONS_FILE, Append(h.evaluations, record))
                  /\ Return("evaluate",
                            [message |-> "Evaluation submitted successfully"])
                  /\ created' = [created EXCEPT !.evaluations =
                                   Append(@, [body |-> evaluation])]
    /\ Finish(h)

NextConc ==
    \/ \E user \in ConcUserInputs : RegisterRead(user)
    \/ \E h \in BagToSet(running) : RegisterCheck(h)
    \/ \E h \in BagToSet(running) : RegisterWrite(h)
    \/ \E lecturer \in ConcLecturerInputs : LecturerRead(lecturer)
    \/ \E h \in BagToSet(running) : LecturerGenerate(h)
    \/ \E h \in BagToSet(running) : LecturerWrite(h)
    \/ \E evaluation \in ConcEvaluationInputs : EvaluateReadUsers(evaluation)
    \/ \E h \in BagToSet(running) : EvaluateReadLecturers(h)
    \/ \E h \in BagToSet(running) : EvaluateReadEvaluations(h)
    \/ \E h \in BagToSet(running) : EvaluateCheckWrite(h)

SpecConc == Init /\ [][NextConc]_vars

(***************************************************************************)
(* Properties of the handlers.                                             *)
(***************************************************************************)
StoredUsers == files[USERS_FILE]
StoredLecturers == files[LECTURERS_FILE]
StoredEvaluations == files[EVALUATIONS_FILE]

\* the number a string of decimal digits denotes
DigitValue(c) == CHOOSE d \in 0..9 : DigitChars[d + 1] = c
RECURSIVE DecValue(_)
DecValue(s) ==
    IF s = <<>> THEN 0
    ELSE 10 * DecValue(SubSeq(s, 1, Len(s) - 1)) + DigitValue(s[Len(s)])

\* s is the number k written with exactly four digits
IsFourDigitsOf(s, k) == Len(s) = 4 /\ DecValue(s) = k

\* C1: handled one at a time, after N successful registrations the users file
\* holds exactly N records, the k-th with the four-digit index k and the name
\* and email of the k-th successful request, which was answered with that index;
\* failed registrations leave no gap.
C1_UserIndicesSequential ==
    /\ Len(StoredUsers) = Len(created.users)
    /\ \A k \in 1..Len(StoredUsers) :
          /\ IsFourDigitsOf(StoredUsers[k].index, k)
          /\ created.users[k].id = StoredUsers[k].index
          /\ StoredUsers[k].name = created.users[k].body.name
          /\ StoredUsers[k].email = created.users[k].body.email

C1_Witness ==
    /\ response.op = "register" /\ response.status = 200
    /\ response.body.index = <<"0", "0", "0", "2">>
    /\ Len(StoredUsers) = 2
    /\ StoredUsers[1].index = <<"0", "0", "0", "1">>

\* C2: a registration whose email is already stored is answered 400 "User already
\* exists" and leaves every file as it was; a registration of a well-formed email
\* that is not stored yet succeeds and stores it.
C2_DuplicateEmailRejected ==
    [][\A user \in UserCreateInputs :
         (response'.op = "register" /\ RegisterUser(user)) =>
            IF \E i \in 1..Len(StoredUsers) : StoredUsers[i].email = user.email
            THEN /\ response'.status = 400
                 /\ response'.body.detail = "User already exists"
                 /\ files' = files
            ELSE user.email \in EmailPool =>
                 /\ response'.status = 200
                 /\ Len(files'[USERS_FILE]) = Len(StoredUsers) + 1
                 /\ files'[USERS_FILE][Len(StoredUsers) + 1].email = user.email]_vars

C2_Witness ==
    /\ response.op = "register" /\ response.status = 400
    /\ response.body.detail = "User already exists"
    /\ Len(StoredUsers) = 2
    /\ Len(created.users) = 2

\* C3: an evaluation whose user_index is the index of no stored user is answered
\* 404 "User not found", whatever its lecturer_id and rating, and no file changes.
C3_UnknownUserRejected ==
    [][\A evaluation \in EvaluationCreateInputs :
         (/\ response'.op = "evaluate"
          /\ ~\E i \in 1..Len(StoredUsers) :
                 StoredUsers[i].index = evaluation.user_index
          /\ EvaluateLecturer(evaluation))
         => /\ response'.status = 404
            /\ response'.body.detail = "User not found"
            /\ files' = files]_vars

C3_Witness ==
    /\ response.op = "evaluate" /\ response.status = 404
    /\ response.body.detail = "User not found"
    /\ Len(StoredUsers) >= 1
    /\ Len(StoredLecturers) >= 1

\* C4: an evaluation whose user and lecturer are stored succeeds and appends its
\* record exactly when 1 <= rating <= 5; otherwise it is answered 400 "Rating must
\* be between 1 and 5" and no file changes.
C4_RatingRangeInclusive ==
    [][\A evaluation \in EvaluationCreateInputs :
         (/\ response'.op = "evaluate"
          /\ \E i \in 1..Len(StoredUsers) :
                StoredUsers[i].index = evaluation.user_index
          /\ \E i \in 1..Len(StoredLecturers) :
                StoredLecturers[i].id = evaluation.lecturer_id
          /\ EvaluateLecturer(evaluation))
         => IF 1 <= evaluation.rating /\ evaluation.rating <= 5
            THEN /\ response'.status = 200
                 /\ files'[EVALUATIONS_FILE] = Append(StoredEvaluations, evaluation)
            ELSE /\ response'.status = 400
                 /\ response'.body.detail = "Rating must be between 1 and 5"
                 /\ files' = files]_vars

C4_Witness ==
    /\ response.op = "evaluate" /\ response.status = 400
    /\ response.body.detail = "Rating must be between 1 and 5"
    /\ Len(StoredEvaluations) = 1
    /\ StoredEvaluations[1].rating \in {1, 5}

\* C5: handled one at a time, every stored evaluation names the index of a stored
\* user and the id of a stored lecturer.
C5_ReferentialIntegrity ==
    \A e \in 1..Len(StoredEvaluations) :
       /\ \E i \in 1..Len(StoredUsers) :
             StoredUsers[i].index = StoredEvaluations[e].user_index
       /\ \E i \in 1..Len(StoredLecturers) :
             StoredLecturers[i].id = StoredEvaluations[e].lecturer_id

C5_Witness ==
    /\ Len(StoredUsers) = 2
    /\ Len(StoredEvaluations) = 1
    /\ StoredEvaluations[1].user_index = <<"0", "0", "0", "2">>
    /\ StoredEvaluations[1].lecturer_id = <<"L", "0", "0", "0", "1">>

\* C6: handled one at a time, no two stored users share an index or an email and
\* no two stored lecturers share an id.
C6_UniqueKeys ==
    /\ \A i, j \in 1..Len(StoredUsers) :
          i /= j => /\ StoredUsers[i].index /= StoredUsers[j].index
                    /\ StoredUsers[i].email /= StoredUsers[j].email
    /\ \A i, j \in 1..Len(StoredLecturers) :
          i /= j => StoredLecturers[i].id /= StoredLecturers[j].id

C6_Witness ==
    /\ Len(StoredUsers) = 2
    /\ Len(StoredLecturers) = 1
    /\ response.op = "register" /\ response.status = 400

\* C7: handled one at a time, GET /lecturers answers with exactly the lecturers
\* added so far and GET /evaluations with exactly the evaluations submitted so
\* far, each with the fields submitted (and the id assigned), in creation order.
C7_ListRoundTrip ==
    /\ response.op = "list_lecturers" =>
          /\ response.status = 200
          /\ response.body =
                [k \in 1..Len(created.lecturers) |->
                    [id |-> created.lecturers[k].id,
                     name |-> created.lecturers[k].body.name,
                     department |-> created.lecturers[k].body.department]]
    /\ response.op = "get_evaluations" =>
          /\ response.status = 200
          /\ response.body =
                [k \in 1..Len(created.evaluations) |->
                    [user_index |-> created.evaluations[k].body.user_index,
                     lecturer_id |-> created.evaluations[k].body.lecturer_id,
                     rating |-> created.evaluations[k].body.rating,
                     comments |-> created.evaluations[k].body.comments]]

C7_Witness ==
    /\ response.op = "get_evaluations"
    /\ Len(response.body) = 2
    /\ response.body[1] /= response.body[2]
    /\ Len(created.lecturers) = 1

\* C8: handled one at a time, every POST /lecturers succeeds and appends exactly
\* one record, also when it repeats a stored name and department; the k-th call is
\* answered with L followed by k in four digits, and the lecturers file holds these
\* ids in creation order.
C8_AddLecturerAlwaysAppends ==
    [][/\ \A lecturer \in LecturerCreateInputs :
            (response'.op = "add_lecturer" /\ AddLecturer(lecturer)) =>
               /\ response'.status = 200
               /\ Len(files'[LECTURERS_FILE]) = Len(StoredLecturers) + 1
               /\ SubSeq(files'[LECTURERS_FILE], 1, Len(StoredLecturers))
                     = StoredLecturers
               /\ response'.body.lecturer_id
                     = files'[LECTURERS_FILE][Len(StoredLecturers) + 1].id
               /\ files'[LECTURERS_FILE][Len(StoredLecturers) + 1].name
                     = lecturer.name
               /\ files'[LECTURERS_FILE][Len(StoredLecturers) + 1].department
                     = lecturer.department
       /\ Len(files'[LECTURERS_FILE]) = Len(created'.lecturers)
       /\ \A k \in 1..Len(files'[LECTURERS_FILE]) :
             /\ Head(files'[LECTURERS_FILE][k].id) = "L"
             /\ IsFourDigitsOf(Tail(files'[LECTURERS_FILE][k].id), k)
             /\ created'.lecturers[k].id = files'[LECTURERS_FILE][k].id]_vars

C8_Witness ==
    /\ response.op = "add_lecturer" /\ response.status = 200
    /\ response.body.lecturer_id = <<"L", "0", "0", "0", "2">>
    /\ Len(StoredLecturers) = 2
    /\ StoredLecturers[1].name = StoredLecturers[2].name
    /\ StoredLecturers[1].department = StoredLecturers[2].department

\* C9: handled one at a time, a request that is answered with a failure leaves the
\* three files as they were, and a request that changes a file is answered with
\* success and has appended exactly one record to exactly one file.
C9_NoPartialSuccess ==
    [][/\ response'.status /= 200 => files' = files
       /\ files' /= files =>
             /\ response'.status = 200
             /\ \E f \in DOMAIN files :
                   /\ Len(files'[f]) = Len(files[f]) + 1
                   /\ SubSeq(files'[f], 1, Len(files[f])) = files[f]
                   /\ \A g \in DOMAIN files \ {f} : files'[g] = files[g]]_vars

C9_Witness ==
    /\ response.op = "evaluate" /\ response.status = 400
    /\ Len(StoredEvaluations) = 1
    /\ Len(StoredUsers) = 1
    /\ Len(StoredLecturers) = 1

\* two creations of one collection were answered with the same identifier
SameIdAnswered(answered) ==
    \E i, j \in 1..Len(answered) : i < j /\ answered[i].id = answered[j].id

\* C10: with handlers interleaved between their reads and their write, whenever two
\* registrations (or two lecturer additions) were both answered with success and
\* the same identifier, the file holds fewer records than were reported created: a
\* record reported as created has been overwritten.
C10_LostUpdate ==
    /\ SameIdAnswered(created.users) => Len(StoredUsers) < Len(created.users)
    /\ SameIdAnswered(created.lecturers)
          => Len(StoredLecturers) < Len(created.lecturers)

C10_Witness ==
    /\ running = EmptyBag
    /\ Len(created.users) = 2
    /\ created.users[1].id = created.users[2].id
    /\ created.users[1].body.email /= created.users[2].body.email
    /\ StoredUsers = <<[index |-> created.users[2].id,
                        name |-> created.users[2].body.name,
                        email |-> created.users[2].body.email]>>
    /\ Len(created.lecturers) = 2
    /\ created.lecturers[1].id = created.lecturers[2].id
    /\ Len(StoredLecturers) = 1

(***************************************************************************)
(* Two registrations on concurrent threads, started on a users file that   *)
(* was built by registrations handled one at a time, and followed by       *)
(* registrations handled one at a time again.                              *)
(***************************************************************************)
\* register_user handled alone, before the two concurrent calls or after both
SoloRegister(user) ==
    /\ running = EmptyBag
    /\ admitted \in {0, 2}
    /\ RegisterUser(user)

\* register_user, line 69, for one of the two concurrent calls
PairRegisterRead(user) ==
    /\ admitted < 2
    /\ RegisterRead(user)

NextPair ==
    \/ \E user \in UserCreateInputs : SoloRegister(user)
    \/ \E user \in ConcUserInputs : PairRegisterRead(user)
    \/ \E h \in BagToSet(running) : RegisterCheck(h)
    \/ \E h \in BagToSet(running) : RegisterWrite(h)

SpecPair == Init /\ [][NextPair]_vars

\* two records of the list have the same index
SharedIndex(users) ==
    \E i, j \in 1..Len(users) : i < j /\ users[i].index = users[j].index

\* C11 as stated: once two registrations with distinct emails have interleaved on
\* a users file built one at a time (both answered, one record overwritten), two
\* stored users have the same index.
C11_PairLeavesSharedIndex ==
    (/\ admitted = 2
     /\ running = EmptyBag
     /\ Len(StoredUsers) < Len(created.users)
     /\ \A i, j \in 1..Len(created.users) :
           i < j => created.users[i].body.email /= created.users[j].body.email)
    => SharedIndex(StoredUsers)

\* C11, amended: the two interleaved registrations never store a second record
\* with an index already stored (they leave the earlier file plus one record); a
\* step that does so is a registration handled after both of them have returned.
C11_SharedIndexOnlyAfterPair ==
    [][(~SharedIndex(StoredUsers) /\ SharedIndex(files'[USERS_FILE]))
          => (admitted = 2 /\ running = EmptyBag)]_vars

C11_Witness ==
    /\ admitted = 2
    /\ running = EmptyBag
    /\ Len(created.users) = 3
    /\ created.users[1].body.email /= created.users[2].body.email
    /\ StoredUsers[1].index = <<"0", "0", "0", "2">>
    /\ StoredUsers[2].index = <<"0", "0", "0", "2">>
    /\ StoredUsers[1].email /= StoredUsers[2].email

\* the evaluation record names a user of the list and a lecturer of the list
Resolves(evaluation, users, lecturers) ==
    /\ \E i \in 1..Len(users) : users[i].index = evaluation.user_index
    /\ \E i \in 1..Len(lecturers) : lecturers[i].id = evaluation.lecturer_id

\* C12 as stated: with handlers interleaved between their reads and their write,
\* every stored evaluation names the index of a user now in the users file and
\* the id of a lecturer now in the lecturers file.
C12_IntegrityWhenInterleaved ==
    \A e \in 1..Len(StoredEvaluations) :
       Resolves(StoredEvaluations[e], StoredUsers, StoredLecturers)

\* C12, amended: with handlers interleaved, every stored evaluation names an index
\* that a successful registration was answered with and an id that a successful
\* lecturer addition was answered with; the record itself may have been
\* overwritten since by another handler's write.
C12_ReferencesWereCreated ==
    \A e \in 1..Len(StoredEvaluations) :
       /\ \E k \in 1..Len(created.users) :
             created.users[k].id = StoredEvaluations[e].user_index
       /\ \E k \in 1..Len(created.lecturers) :
             created.lecturers[k].id = StoredEvaluations[e].lecturer_id

C12_Witness ==
    /\ running = EmptyBag
    /\ Len(StoredEvaluations) = 1
    /\ Len(StoredUsers) = 1
    /\ StoredUsers[1].index /= StoredEvaluations[1].user_index
    /\ Len(StoredLecturers) = 1
    /\ StoredLecturers[1].id = StoredEvaluations[1].lecturer_id

\* list `before` is list `after` or list `after` without its last record
SameOrOneAppended(before, after) ==
    \/ after = before
    \/ /\ Len(after) = Len(before) + 1
       /\ SubSeq(after, 1, Len(before)) = before

\* C13: handled one at a time, every request leaves each of the three files as it
\* was or with exactly one record added at its end: no stored record is removed,
\* moved or altered.
C13_AppendOnly ==
    [][\A f \in DOMAIN files : SameOrOneAppended(files[f], files'[f])]_vars

C13_Witness ==
    /\ Len(StoredUsers) = 2
    /\ Len(StoredLecturers) = 1
    /\ Len(StoredEvaluations) = 1
    /\ response.op = "evaluate" /\ response.status = 200

\* the rating lies outside 1..5
BadRating(evaluation) == evaluation.rating < 1 \/ evaluation.rating > 5

\* C14 as stated: an evaluation with an out-of-range rating is answered 400 "Rating
\* must be between 1 and 5" also when its user_index or lecturer_id is not stored,
\* and one with neither user nor lecturer stored is answered 404 "User not found".
C14_RatingCheckedFirst ==
    [][\A evaluation \in EvaluationCreateInputs :
         (/\ response'.op = "evaluate"
          /\ ~Resolves(evaluation, StoredUsers, StoredLecturers)
          /\ EvaluateLecturer(evaluation))
         => IF BadRating(evaluation)
            THEN /\ response'.status = 400
                 /\ response'.body.detail = "Rating must be between 1 and 5"
            ELSE (~\E i \in 1..Len(StoredUsers) :
                      StoredUsers[i].index = evaluation.user_index)
                 => /\ response'.status = 404
                    /\ response'.body.detail = "User not found"]_vars

\* C14, amended: the failure answered is the first in the order user, lecturer,
\* rating: an unknown user_index gives 404 "User not found" whatever else is
\* wrong; a known user with an unknown lecturer_id gives 404 "Lecturer not found"
\* also when the rating is out of range; 400 is answered only when both are known.
C14_UserThenLecturerThenRating ==
    [][\A evaluation \in EvaluationCreateInputs :
         (/\ response'.op = "evaluate"
          /\ (BadRating(evaluation)
                \/ ~Resolves(evaluation, StoredUsers, StoredLecturers))
          /\ EvaluateLecturer(evaluation))
         => /\ files' = files
            /\ response'.status =
                  IF Resolves(evaluation, StoredUsers, StoredLecturers)
                  THEN 400 ELSE 404
            /\ response'.body.detail =
                  IF ~\E i \in 1..Len(StoredUsers) :
                        StoredUsers[i].index = evaluation.user_index
                  THEN "User not found"
                  ELSE IF ~\E i \in 1..Len(StoredLecturers) :
                        StoredLecturers[i].id = evaluation.lecturer_id
                  THEN "Lecturer not found"
                  ELSE "Rating must be between 1 and 5"]_vars

C14_Witness ==
    /\ response.op = "evaluate" /\ response.status = 404
    /\ response.body.detail = "Lecturer not found"
    /\ Len(StoredUsers) = 1
    /\ Len(StoredLecturers) = 0

\* C15: in every state reached, also with handlers interleaved between their reads
\* and their write, every stored evaluation has a rating from 1 to 5.
C15_StoredRatingsInRange ==
    \A e \in 1..Len(StoredEvaluations) :
       1 <= StoredEvaluations[e].rating /\ StoredEvaluations[e].rating <= 5

C15_Witness ==
    /\ response.op = "evaluate" /\ response.status = 400
    /\ Len(StoredEvaluations) = 1
    /\ StoredEvaluations[1].rating = 5

\* C16: with handlers interleaved between their reads and their write, also when
\* two registrations in progress carry the same email, no two stored users have
\* the same email.
C16_EmailsUniqueWhenInterleaved ==
    \A i, j \in 1..Len(StoredUsers) :
       i < j => StoredUsers[i].email /= StoredUsers[j].email

C16_Witness ==
    /\ running = EmptyBag
    /\ Len(created.users) = 3
    /\ created.users[1].body.email = created.users[2].body.email
    /\ Len(StoredUsers) = 2

\* C17: handled one at a time, a register request changes no file but users, a
\* lecturer addition no file but lecturers, an evaluation no file but evaluations,
\* and the two list requests and the greeting change no file.
C17_WritesOwnFileOnly ==
    [][/\ response'.op = "register" =>
             /\ files'[LECTURERS_FILE] = files[LECTURERS_FILE]
             /\ files'[EVALUATIONS_FILE] = files[EVALUATIONS_FILE]
       /\ response'.op = "add_lecturer" =>
             /\ files'[USERS_FILE] = files[USERS_FILE]
             /\ files'[EVALUATIONS_FILE] = files[EVALUATIONS_FILE]
       /\ response'.op = "evaluate" =>
             /\ files'[USERS_FILE] = files[USERS_FILE]
             /\ files'[LECTURERS_FILE] = files[LECTURERS_FILE]
       /\ response'.op \in {"list_lecturers", "get_evaluations", "read_root"} =>
             files' = files]_vars

C17_Witness ==
    /\ response.op = "read_root"
    /\ Len(StoredUsers) = 1
    /\ Len(StoredLecturers) = 2
    /\ Len(StoredEvaluations) = 1

\* ---------------------------------------------------------------------------
\* Process start on a directory that may already hold some of the files
\* ---------------------------------------------------------------------------

AllFiles == {USERS_FILE, LECTURERS_FILE, EVALUATIONS_FILE}

\* faulty variant: every file is rewritten as [], present or not
ensure_files_exist_truncate(disk) == [f \in AllFiles |-> <<>>]

\* ensure_files_exist(): a path that does not exist is written as [], one that
\* exists is not opened
ensure_files_exist(disk) ==
    [f \in AllFiles |-> IF f \in DOMAIN disk THEN disk[f] ELSE <<>>]

\* what an earlier run of the program may have left in users.json, lecturers.json
PriorUsers ==
    {<<>>, <<[index |-> generate_user_index(<<>>), name |-> "Alice",
              email |-> "a@x.com"]>>}
PriorLecturers ==
    {<<>>, <<[id |-> generate_lecturer_id(<<>>), name |-> "Dr. X",
              department |-> "CS"]>>}

\* the directory before the process starts: any of the three files may be absent
InitDisk ==
    /\ \E present \in SUBSET AllFiles, users \in PriorUsers,
          lecturers \in PriorLecturers :
          files = [f \in present |->
                      IF f = USERS_FILE THEN users
                      ELSE IF f = LECTURERS_FILE THEN lecturers ELSE <<>>]
    /\ response = [op |-> "none", status |-> 0, body |-> NoBody]
    /\ created = [users |-> <<>>, lecturers |-> <<>>, evaluations |-> <<>>]
    /\ running = EmptyBag
    /\ admitted = 0

\* the module is imported (line 31), at the first start or at a restart; no
\* request has been answered yet by the new process
Startup ==
    /\ files' = ensure_files_exist(files)
    /\ response' = [op |-> "startup", status |-> 0, body |-> NoBody]
    /\ UNCHANGED <<created, running, admitted>>

\* requests are served only by a process that has started
Started == response.op /= "none"

NextRestart ==
    \/ Startup
    \/ Started /\ Next

SpecRestart == InitDisk /\ [][NextRestart]_vars

\* C18: a start of the process leaves every file that exists as it is and
\* creates every absent one as the empty list, so that after a restart the three
\* files hold the same records in the same order; the registration or lecturer
\* addition that follows a start is given the four digits of the number of
\* stored records plus one, and appends its record.
C18_StartupKeepsCollections ==
    [][/\ response'.op = "startup" =>
             /\ DOMAIN files' = AllFiles
             /\ \A f \in AllFiles :
                   files'[f] = IF f \in DOMAIN files THEN files[f] ELSE <<>>
       /\ (response.op = "startup" /\ response'.op = "register"
             /\ response'.status = 200) =>
             /\ IsFourDigitsOf(response'.body.index, Len(files[USERS_FILE]) + 1)
             /\ Len(files'[USERS_FILE]) = Len(files[USERS_FILE]) + 1
             /\ SubSeq(files'[USERS_FILE], 1, Len(files[USERS_FILE]))
                   = files[USERS_FILE]
             /\ files'[USERS_FILE][Len(files[USERS_FILE]) + 1].index
                   = response'.body.index
       /\ (response.op = "startup" /\ response'.op = "add_lecturer") =>
             /\ response'.status = 200
             /\ Head(response'.body.lecturer_id) = "L"
             /\ IsFourDigitsOf(Tail(response'.body.lecturer_id),
                               Len(files[LECTURERS_FILE]) + 1)
             /\ Len(files'[LECTURERS_FILE]) = Len(files[LECTURERS_FILE]) + 1
             /\ SubSeq(files'[LECTURERS_FILE], 1, Len(files[LECTURERS_FILE]))
                   = files[LECTURERS_FILE]
             /\ files'[LECTURERS_FILE][Len(files[LECTURERS_FILE]) + 1].id
                   = response'.body.lecturer_id]_vars

\* a restart after two registrations, a lecturer addition and an evaluation
C18_Witness ==
    /\ response.op = "startup"
    /\ Len(created.users) = 2
    /\ Len(created.lecturers) = 1
    /\ Len(created.evaluations) = 1
    /\ Len(files[USERS_FILE]) = 3
    /\ Len(files[EVALUATIONS_FILE]) = 1

====
